---- MODULE Spec2Model ----
(***************************************************************************)
(* gzhttp: the GzipResponseWriter state machine of gzhttp/gzip.go.         *)
(*                                                                         *)
(* A handler drives one GzipResponseWriter with WriteHeader, Write, Flush  *)
(* and Close calls and mutates the response header map between calls.  The *)
(* writer buffers the first bytes, decides between the gzip writer and the *)
(* plain ResponseWriter and then streams.  The underlying ResponseWriter   *)
(* (the sink) and the gzip writer are observed through what they receive.  *)
(*                                                                         *)
(* Body bytes are identified by their position in the handler's output:    *)
(* the k-th byte the handler writes is the number k.  A byte slice is a    *)
(* sequence of runs <<lo, hi>> of consecutive positions, so a slice of any *)
(* length is a short value and order, loss and duplication stay visible.   *)
(***************************************************************************)
EXTENDS Integers, Sequences, FiniteSets, TLC

(***************************************************************************)
(* Header names (gzip.go const block).                                     *)
(***************************************************************************)
HeaderNoCompression == "No-Gzip-Compression"
vary == "Vary"
acceptEncoding == "Accept-Encoding"
contentEncoding == "Content-Encoding"
contentRange == "Content-Range"
acceptRanges == "Accept-Ranges"
contentType == "Content-Type"
contentLength == "Content-Length"

DefaultMinSize == 1024

\* The floor of the decision buffer's capacity (wantBuf := 512 in Write).
wantBufFloor == 512

\* atoi's fast path takes strings shorter than this (intSize == 64).
atoiFastLen == 19

\* Errors: none, the sink's own error, and io.ErrShortWrite.
ErrNone == ""
ErrSink == "EIO"
ErrShortWrite == "short write"

(***************************************************************************)
(* Bounds of the model.                                                    *)
(***************************************************************************)
\* Number of handler calls (WriteHeader, Write, Flush, Close, header
\* mutations) in one behaviour.
MaxSteps == 4

\* Lengths of the byte slices the handler passes to Write.
ChunkSizes == {0, 1, 600}

\* Values of the MinSize option (validate() admits every size >= 0).
MinSizes == {0, 2, DefaultMinSize}

\* Status codes the handler passes to WriteHeader.
Codes == {200, 500}

\* What http.DetectContentType can answer for a non-empty buffer.
SniffTypes == {"text/plain; charset=utf-8", "application/x-gzip"}

\* Header mutations the handler performs: <<key, values>>.
HeaderSets ==
  { <<HeaderNoCompression, <<"1">>>>,
    <<contentEncoding, <<"br">>>>,
    <<contentRange, <<"bytes 0-9/20">>>>,
    <<contentLength, <<"0">>>>,
    <<contentLength, <<"1">>>>,
    <<contentLength, <<"2000">>>>,
    <<contentType, <<>>>>,
    <<contentType, <<"Video/MP4">>>>,
    <<contentType, <<"text/html">>>>,
    <<acceptRanges, <<"bytes">>>> }

\* Header keys the handler deletes.
HeaderDels == {contentEncoding}

(***************************************************************************)
(* Strings (package strings, as far as gzip.go uses it).                   *)
(***************************************************************************)
upperLetters == "ABCDEFGHIJKLMNOPQRSTUVWXYZ"
lowerLetters == "abcdefghijklmnopqrstuvwxyz"
digits == "0123456789"

CharAt(s, i) == SubSeq(s, i, i)

\* Index of the one-character string c in s, 0 when absent.
IndexChar(s, c) ==
  IF \E i \in 1..Len(s) : CharAt(s, i) = c
  THEN CHOOSE i \in 1..Len(s) : CharAt(s, i) = c /\ \A j \in 1..(i-1) : CharAt(s, j) # c
  ELSE 0

LowerChar(c) ==
  IF IndexChar(upperLetters, c) > 0
  THEN CharAt(lowerLetters, IndexChar(upperLetters, c))
  ELSE c

RECURSIVE ToLower(_)
ToLower(s) ==
  IF Len(s) = 0 THEN "" ELSE LowerChar(CharAt(s, 1)) \o ToLower(SubSeq(s, 2, Len(s)))

IsSpace(c) == c \in {" ", "\t", "\n", "\r"}

RECURSIVE TrimLeft(_)
TrimLeft(s) ==
  IF Len(s) > 0 /\ IsSpace(CharAt(s, 1)) THEN TrimLeft(SubSeq(s, 2, Len(s))) ELSE s

RECURSIVE TrimRight(_)
TrimRight(s) ==
  IF Len(s) > 0 /\ IsSpace(CharAt(s, Len(s))) THEN TrimRight(SubSeq(s, 1, Len(s) - 1)) ELSE s

TrimSpace(s) == TrimRight(TrimLeft(s))

HasPrefix(s, p) == Len(s) >= Len(p) /\ SubSeq(s, 1, Len(p)) = p

Contains(s, sub) ==
  \E i \in 1..(Len(s) - Len(sub) + 1) : SubSeq(s, i, i + Len(sub) - 1) = sub

(***************************************************************************)
(* atoi: the fast path for strings of 1..18 characters; the slow path      *)
(* (strconv.ParseInt) is reached here only by the empty string, for which  *)
(* it answers 0.  Header values of the model are shorter than 19           *)
(* characters.                                                             *)
(***************************************************************************)
RECURSIVE atoiDigits(_, _)
\* The loop "n = n*10 + int(ch)"; -1 when a character is not a digit.
atoiDigits(s, n) ==
  IF Len(s) = 0 THEN n
  ELSE IF IndexChar(digits, CharAt(s, 1)) = 0 THEN -1
  ELSE atoiDigits(SubSeq(s, 2, Len(s)), n * 10 + (IndexChar(digits, CharAt(s, 1)) - 1))

atoi(s) ==
  IF 0 < Len(s) /\ Len(s) < atoiFastLen
  THEN LET signed == CharAt(s, 1) \in {"-", "+"}
           body == IF signed THEN SubSeq(s, 2, Len(s)) ELSE s
           n == atoiDigits(body, 0)
       IN  IF Len(body) < 1 \/ n < 0 THEN 0
           ELSE IF CharAt(s, 1) = "-" THEN 0 - n ELSE n
  ELSE 0

(***************************************************************************)
(* Content type filters.                                                   *)
(***************************************************************************)
excludePrefixDefault == {"video/", "audio/"}
excludeContainsDefault == {"compress", "zip"}

DefaultContentTypeFilter(ct) ==
  LET c == TrimSpace(ToLower(ct))
  IN  IF c = "" THEN TRUE
      ELSE IF \E x \in excludeContainsDefault : Contains(c, x) THEN FALSE
      ELSE IF \E p \in excludePrefixDefault : HasPrefix(c, p) THEN FALSE
      ELSE TRUE

CompressAllContentTypeFilter(ct) == TRUE

\* The configured filters of the model (config.contentTypes).
Filters == {"default", "all"}

\* w.contentTypeFilter(ct) for the configured filter f.
contentTypeFilter(f, ct) ==
  IF f = "default" THEN DefaultContentTypeFilter(ct) ELSE CompressAllContentTypeFilter(ct)

(***************************************************************************)
(* The request gate: acceptsGzip, parseEncodingGzip, parseCoding.          *)
(* A qvalue is an integer count of millionths, so 1.0 is QUnit.            *)
(***************************************************************************)
QUnit == 1000000

DefaultQValue == QUnit

\* strings.Split(s, sep) for a one-character separator.
RECURSIVE Split(_, _)
Split(s, sep) ==
  LET i == IndexChar(s, sep)
  IN  IF i = 0 THEN <<s>>
      ELSE <<SubSeq(s, 1, i - 1)>> \o Split(SubSeq(s, i + 1, Len(s)), sep)

\* The first six decimals of a digit string, as millionths.
RECURSIVE fractionOf(_, _)
fractionOf(s, place) ==
  IF Len(s) = 0 \/ place = 0 THEN 0
  ELSE (IndexChar(digits, CharAt(s, 1)) - 1) * place
       + fractionOf(SubSeq(s, 2, Len(s)), place \div 10)

\* strconv.ParseFloat(s, 64) on decimal literals: an optional sign, digits,
\* and an optional point with digits.  Anything else is a syntax error,
\* for which ParseFloat answers 0 and an error.
ParseFloat(s) ==
  LET signed == Len(s) > 0 /\ CharAt(s, 1) \in {"-", "+"}
      body == IF signed THEN SubSeq(s, 2, Len(s)) ELSE s
      dot == IndexChar(body, ".")
      whole == IF dot = 0 THEN body ELSE SubSeq(body, 1, dot - 1)
      frac == IF dot = 0 THEN "" ELSE SubSeq(body, dot + 1, Len(body))
      wellFormed == /\ Len(whole) + Len(frac) > 0
                    /\ atoiDigits(whole, 0) >= 0
                    /\ atoiDigits(frac, 0) >= 0
      magnitude == atoiDigits(whole, 0) * QUnit + fractionOf(frac, QUnit \div 10)
  IN  IF ~wellFormed THEN [val |-> 0, err |-> "invalid syntax"]
      ELSE [val |-> IF signed /\ CharAt(s, 1) = "-" THEN 0 - magnitude ELSE magnitude,
            err |-> ErrNone]

\* The clamp of parseCoding: below 0.0 becomes 0.0, above 1.0 becomes 1.0.
clampQ(q) == IF q < 0 THEN 0 ELSE IF q > QUnit THEN QUnit ELSE q

\* The loop of parseCoding from part n on; acc is (coding, qvalue, err).
RECURSIVE parseCodingParts(_, _, _)
parseCodingParts(parts, n, acc) ==
  IF n > Len(parts) THEN acc
  ELSE LET part == TrimSpace(parts[n])
           \* "qvalue = DefaultQValue" is the loop's second statement
           reset == [acc EXCEPT !.qvalue = DefaultQValue]
           next == IF n = 1 THEN [reset EXCEPT !.coding = ToLower(part)]
                   ELSE IF HasPrefix(part, "q=")
                   THEN LET f == ParseFloat(SubSeq(part, 3, Len(part)))
                        IN  [reset EXCEPT !.qvalue = clampQ(f.val), !.err = f.err]
                   ELSE reset
       IN  parseCodingParts(parts, n + 1, next)

\* parseCoding(s): the coding, its qvalue and the error.
parseCoding(s) ==
  LET r == parseCodingParts(Split(s, ";"), 1,
                            [coding |-> "", qvalue |-> 0, err |-> ErrNone])
  IN  IF r.coding = "" THEN [r EXCEPT !.err = "empty content-coding"] ELSE r

\* The loop of parseEncodingGzip over what is left of the header value.
RECURSIVE parseEncodingGzipLoop(_)
parseEncodingGzipLoop(s) ==
  IF Len(s) = 0 THEN 0
  ELSE LET comma == IndexChar(s, ",")
           stop == IF comma = 0 THEN Len(s) + 1 ELSE comma
           c == parseCoding(SubSeq(s, 1, stop - 1))
       IN  IF c.coding = "gzip" THEN c.qvalue
           ELSE IF comma = 0 THEN 0
           ELSE parseEncodingGzipLoop(SubSeq(s, stop + 1, Len(s)))

\* parseEncodingGzip(s): the qvalue of gzip in an Accept-Encoding value.
parseEncodingGzip(s) == parseEncodingGzipLoop(TrimSpace(s))

\* One entry of an Accept-Encoding value as the client wrote it.
EntryText(e) ==
  LET RECURSIVE params(_)
      params(ps) == IF ps = <<>> THEN "" ELSE ";" \o Head(ps) \o params(Tail(ps))
  IN  e.coding \o params(e.params)

\* r.Header.Get("Accept-Encoding") for a list of entries; "" for no entry,
\* which is also what Get answers when the header is absent.
RECURSIVE AcceptEncodingText(_)
AcceptEncodingText(es) ==
  IF es = <<>> THEN ""
  ELSE IF Len(es) = 1 THEN EntryText(es[1])
  ELSE EntryText(es[1]) \o ", " \o AcceptEncodingText(Tail(es))

\* acceptsGzip(r)
acceptsGzip(r) ==
  r.method # "HEAD" /\ parseEncodingGzip(AcceptEncodingText(r.accept)) > 0

\* Requests of the model.
Methods == {"GET", "HEAD", "POST"}

Codings == {"gzip", "GZIP", "br"}

\* Parameters a client attaches to a coding: weights and an extension.
ParamTexts == {"q=0", "q=0.5", "q=-1", "x=1"}

\* Parameter lists of an entry: at most two, at most one of them a weight.
ParamLists ==
  {<<>>} \cup {<<p>> : p \in ParamTexts}
         \cup {ps \in {<<p, q>> : p, q \in ParamTexts} :
                 ~(HasPrefix(ps[1], "q=") /\ HasPrefix(ps[2], "q="))}

Entries == {[coding |-> c, params |-> ps] : c \in Codings, ps \in ParamLists}

\* Entries that come before the one of interest.
LeadingEntries ==
  {[coding |-> "deflate", params |-> <<>>], [coding |-> "identity", params |-> <<"q=0">>]}

AcceptLists ==
  {<<>>} \cup {<<e>> : e \in Entries} \cup {<<f, e>> : f \in LeadingEntries, e \in Entries}

Requests == {[method |-> m, accept |-> a] : m \in Methods, a \in AcceptLists}

\* The request of the behaviours that follow one GzipResponseWriter.
AcceptedRequest == [method |-> "GET", accept |-> <<[coding |-> "gzip", params |-> <<>>]>>]

(***************************************************************************)
(* http.Header: a map from key to a list of values.                        *)
(***************************************************************************)
\* Header.Get: the first value of the key, "" when there is none.
Get(h, k) == IF k \in DOMAIN h /\ Len(h[k]) > 0 THEN h[k][1] ELSE ""

\* len(h[k])
NumValues(h, k) == IF k \in DOMAIN h THEN Len(h[k]) ELSE 0

\* h[k] = vals
Put(h, k, vals) == [x \in (DOMAIN h) \cup {k} |-> IF x = k THEN vals ELSE h[x]]

\* Header.Set
Set(h, k, v) == Put(h, k, <<v>>)

\* Header.Del, delete(h, k)
Del(h, k) == [x \in (DOMAIN h) \ {k} |-> h[x]]

(***************************************************************************)
(* Byte slices as sequences of runs.                                       *)
(***************************************************************************)
\* The bytes at positions lo..hi of the handler's output.
Bytes(lo, hi) == IF hi < lo THEN <<>> ELSE << <<lo, hi>> >>

RECURSIVE BLen(_)
\* len(b)
BLen(b) == IF b = <<>> THEN 0 ELSE (b[1][2] - b[1][1] + 1) + BLen(Tail(b))

\* append(a, b...): adjacent runs are written as one run.
Cat(a, b) ==
  IF a = <<>> THEN b
  ELSE IF b = <<>> THEN a
  ELSE IF a[Len(a)][2] + 1 = b[1][1]
  THEN SubSeq(a, 1, Len(a) - 1) \o << <<a[Len(a)][1], b[1][2]>> >> \o Tail(b)
  ELSE a \o b

RECURSIVE Take(_, _)
\* b[:n]
Take(b, n) ==
  IF n <= 0 \/ b = <<>> THEN <<>>
  ELSE LET l == b[1][2] - b[1][1] + 1
       IN  IF n >= l THEN <<b[1]>> \o Take(Tail(b), n - l)
           ELSE << <<b[1][1], b[1][1] + n - 1>> >>

RECURSIVE Drop(_, _)
\* b[n:]
Drop(b, n) ==
  IF b = <<>> THEN <<>>
  ELSE IF n <= 0 THEN b
  ELSE LET l == b[1][2] - b[1][1] + 1
       IN  IF n >= l THEN Drop(Tail(b), n - l)
           ELSE << <<b[1][1] + n, b[1][2]>> >> \o Tail(b)

(***************************************************************************)
(* Content type lists: mime.ParseMediaType as far as the lists use it,     *)
(* parsedContentType.equals, handleContentType and ExceptContentTypes.     *)
(* Parameter values of the model have no backslash and no continuation     *)
(* ("*") keys.                                                             *)
(***************************************************************************)
\* The characters that end a token (RFC 2045 tspecials, space and tab).
notTokenChars == " \t()<>@,;:\\\"/[]?="

RECURSIVE tokenLen(_)
\* The length of the longest prefix of s made of token characters.
tokenLen(s) ==
  IF Len(s) = 0 \/ IndexChar(notTokenChars, CharAt(s, 1)) > 0 THEN 0
  ELSE 1 + tokenLen(SubSeq(s, 2, Len(s)))

\* consumeToken: the token at the head of s and what follows it.
consumeToken(s) ==
  [token |-> SubSeq(s, 1, tokenLen(s)), rest |-> SubSeq(s, tokenLen(s) + 1, Len(s))]

\* consumeValue: a token, or a quoted string up to its closing quote.
consumeValue(s) ==
  IF Len(s) = 0 THEN [value |-> "", rest |-> s]
  ELSE IF CharAt(s, 1) # "\"" THEN [value |-> consumeToken(s).token, rest |-> consumeToken(s).rest]
  ELSE LET close == IndexChar(SubSeq(s, 2, Len(s)), "\"")
       IN  IF close = 0 THEN [value |-> "", rest |-> s]
           ELSE [value |-> SubSeq(s, 2, close), rest |-> SubSeq(s, close + 2, Len(s))]

\* checkMediaTypeDisposition: a token, or token "/" token.
checkMediaType(s) ==
  LET t == consumeToken(s)
      sub == consumeToken(SubSeq(t.rest, 2, Len(t.rest)))
  IN  /\ t.token # ""
      /\ \/ t.rest = ""
         \/ /\ HasPrefix(t.rest, "/")
            /\ sub.token # "" /\ sub.rest = ""

\* consumeMediaParam: the next ";key=value" of s; key "" when there is none.
consumeMediaParam(s) ==
  LET none == [key |-> "", value |-> "", rest |-> s]
      r1 == TrimLeft(s)
      r2 == TrimLeft(SubSeq(r1, 2, Len(r1)))
      k == consumeToken(r2)
      r3 == TrimLeft(k.rest)
      r4 == TrimLeft(SubSeq(r3, 2, Len(r3)))
      v == consumeValue(r4)
  IN  IF ~HasPrefix(r1, ";") THEN none
      ELSE IF k.token = "" THEN none
      ELSE IF ~HasPrefix(r3, "=") THEN none
      ELSE IF v.value = "" /\ v.rest = r4 THEN none
      ELSE [key |-> ToLower(k.token), value |-> v.value, rest |-> v.rest]

RECURSIVE parseMediaParams(_, _)
\* The parameter loop of ParseMediaType: the parameters read so far and
\* whether the rest of the value parsed.
parseMediaParams(s, params) ==
  LET v == TrimLeft(s)
      p == consumeMediaParam(v)
  IN  IF Len(v) = 0 THEN [params |-> params, ok |-> TRUE]
      ELSE IF p.key = ""
      THEN [params |-> params, ok |-> TrimSpace(p.rest) = ";"]
      ELSE IF p.key \in DOMAIN params THEN [params |-> params, ok |-> FALSE]
      ELSE parseMediaParams(p.rest,
             [x \in (DOMAIN params) \cup {p.key} |-> IF x = p.key THEN p.value ELSE params[x]])

\* mime.ParseMediaType(v): the media type in lower case, its parameters
\* (keys in lower case) and whether there was no error.
ParseMediaType(v) ==
  LET semi == IndexChar(v, ";")
      base == IF semi = 0 THEN v ELSE SubSeq(v, 1, semi - 1)
      mediatype == TrimSpace(ToLower(base))
      ps == parseMediaParams(IF semi = 0 THEN "" ELSE SubSeq(v, semi, Len(v)), <<>>)
  IN  IF ~checkMediaType(mediatype) THEN [mediaType |-> "", params |-> <<>>, ok |-> FALSE]
      ELSE IF ~ps.ok THEN [mediaType |-> mediatype, params |-> <<>>, ok |-> FALSE]
      ELSE [mediaType |-> mediatype, params |-> ps.params, ok |-> TRUE]

\* pct.equals(mediaType, params)
equals(pct, mediaType, params) ==
  IF pct.mediaType # mediaType THEN FALSE
  ELSE IF Cardinality(DOMAIN pct.params) = 0 THEN TRUE
  ELSE IF Cardinality(DOMAIN pct.params) # Cardinality(DOMAIN params) THEN FALSE
  ELSE \A k \in DOMAIN pct.params : k \in DOMAIN params /\ pct.params[k] = params[k]

\* The loop of ContentTypes and ExceptContentTypes: the entries of types
\* that parse, as parsedContentType values, in order.
RECURSIVE parsedContentTypes(_)
parsedContentTypes(types) ==
  IF types = <<>> THEN <<>>
  ELSE LET p == ParseMediaType(Head(types))
       IN  (IF p.ok THEN <<[mediaType |-> p.mediaType, params |-> p.params]>> ELSE <<>>)
           \o parsedContentTypes(Tail(types))

\* handleContentType(contentTypes, ct)
handleContentType(contentTypes, ct) ==
  IF Len(contentTypes) = 0 THEN TRUE
  ELSE LET p == ParseMediaType(ct)
       IN  IF ~p.ok THEN FALSE
           ELSE \E i \in 1..Len(contentTypes) : equals(contentTypes[i], p.mediaType, p.params)

\* The filter ExceptContentTypes(types) installs, applied to ct.
ExceptContentTypes(types, ct) == ~handleContentType(parsedContentTypes(types), ct)

\* Content types of the model, for lists and for responses; the last two
\* do not parse.
TypeTexts ==
  {"text/html", "Text/HTML; Charset=utf-8", "text/html;charset=utf-8",
   "image/png", "text html", ""}

\* Lists given to ExceptContentTypes.
MaxListLen == 2

TypeLists == UNION {[1..n -> TypeTexts] : n \in 0..MaxListLen}

(***************************************************************************)
(* State.                                                                  *)
(***************************************************************************)
VARIABLES
  minSize,           \* config.minSize, copied into the writer
  keepAcceptRanges,  \* config.keepAcceptRanges
  filter,            \* config.contentTypes: which content type filter
  hdr,               \* w.Header(): the response header map
  code,              \* w.code: the saved WriteHeader value, 0 when none
  buf,               \* w.buf
  ignore,            \* w.ignore
  gw,                \* w.gw != nil
  sinkCodes,         \* the codes passed to the sink's WriteHeader, in order
  sinkBody,          \* the bytes written to the sink directly (uncompressed)
  gzIn,              \* the bytes written into gzip writers
  sinkLog,           \* what reached the sink, in order: "H" a WriteHeader call,
                     \* "B" plain body bytes, "Z" gzip stream bytes, "F" a flush
  wire,              \* the header map as it stood when the sink first sent it
  sinkFault,         \* how the sink treats writes: "ok", "err", "short"
  gwNew,             \* number of w.gwFactory.New calls
  gwCloses,          \* number of gw.Close calls
  decided,           \* which of startGzip / startPlain ran first
  errSeen,           \* some sink or gzip writer call failed or was short
  downErr,           \* what the sink or the gzip writer reported to the writer
                     \* during the handler's latest call: ErrNone, ErrSink, or
                     \* "short" for a count below the length with no error
  codesPassed,       \* the codes the handler passed to WriteHeader, in order
  request,           \* the request: its method and its Accept-Encoding entries
  served,            \* what the handler was given: "none" before the call,
                     \* then "wrapped" (a GzipResponseWriter) or "raw" (the sink)
  exceptList,        \* the list given to ExceptContentTypes
  respType,          \* a content type given to the filter built from it
  eligible,          \* what that filter answered, "unknown" before it is asked
  pool,              \* grwPool: the instances that lie in the pool
  insts,             \* the GzipResponseWriter instances: for each its sink
                     \* reference, code, buf, ignore and gw
  reqs,              \* the requests in flight: for each where its handler
                     \* function stands, its instance, and its own sink
  lastOp,            \* the handler's latest call
  ret,               \* what that call returned: [n, err]
  written,           \* bytes the handler has passed to Write
  nWrites,           \* number of Write calls
  phase,             \* "open" until the first Close, then "closed", and
                     \* "reused" once Write is called after a Close
  steps              \* number of steps taken

vars == <<minSize, keepAcceptRanges, filter, hdr, code, buf, ignore, gw,
          sinkCodes, sinkBody, gzIn, sinkLog, wire, sinkFault, gwNew, gwCloses,
          decided, errSeen, downErr, codesPassed, request, served, exceptList,
          respType, eligible, pool, insts, reqs, lastOp, ret, written, nWrites,
          phase, steps>>

\* The writer and its sink as one value, for the methods below.
W == [hdr |-> hdr, code |-> code, buf |-> buf, ignore |-> ignore, gw |-> gw,
      sinkCodes |-> sinkCodes, sinkBody |-> sinkBody, gzIn |-> gzIn,
      sinkLog |-> sinkLog, wire |-> wire, gwNew |-> gwNew, gwCloses |-> gwCloses,
      decided |-> decided, errSeen |-> errSeen, downErr |-> downErr]

\* The state after a method left the writer and its sink as w.
Becomes(w) ==
  /\ hdr' = w.hdr /\ code' = w.code /\ buf' = w.buf /\ ignore' = w.ignore
  /\ gw' = w.gw /\ sinkCodes' = w.sinkCodes /\ sinkBody' = w.sinkBody
  /\ gzIn' = w.gzIn /\ sinkLog' = w.sinkLog /\ wire' = w.wire
  /\ gwNew' = w.gwNew /\ gwCloses' = w.gwCloses /\ decided' = w.decided
  /\ errSeen' = w.errSeen /\ downErr' = w.downErr


\* The writer and its sink when the handler enters one of the writer's methods.
Entered == [W EXCEPT !.downErr = ErrNone]

\* What a downstream write of b reports under the sink's fault.
Reported(b, before) ==
  IF sinkFault = "err" THEN ErrSink
  ELSE IF sinkFault = "short" /\ BLen(b) > 0 THEN "short"
  ELSE before

(***************************************************************************)
(* The sink (http.ResponseWriter) and the gzip writer (writer.GzipWriter). *)
(***************************************************************************)
\* The sink sends the header map the first time it is written to.
SinkCommit(w) ==
  IF w.wire.sent THEN w ELSE [w EXCEPT !.wire = [sent |-> TRUE, hdr |-> w.hdr]]

\* w.ResponseWriter.WriteHeader(c)
SinkWriteHeader(w, c) ==
  [SinkCommit(w) EXCEPT !.sinkCodes = Append(@, c), !.sinkLog = Append(@, "H")]

\* The part of b a write accepts under the sink's fault.
Accepted(b) ==
  IF sinkFault = "ok" THEN b
  ELSE IF sinkFault = "err" THEN <<>>
  ELSE Take(b, BLen(b) - 1)

Failed(b) == sinkFault = "err" \/ (sinkFault = "short" /\ BLen(b) > 0)

\* w.ResponseWriter.Write(b): the state, the count and the error.
SinkWrite(w, b) ==
  [w |-> [SinkCommit(w) EXCEPT !.sinkBody = Cat(@, Accepted(b)),
                               !.sinkLog = IF Accepted(b) # <<>> THEN Append(@, "B") ELSE @,
                               !.errSeen = @ \/ Failed(b),
                               !.downErr = Reported(b, @)],
   n |-> BLen(Accepted(b)),
   err |-> IF sinkFault = "err" THEN ErrSink ELSE ErrNone]

\* w.gw.Write(b): the gzip writer compresses b onto the sink.
GwWrite(w, b) ==
  [w |-> [SinkCommit(w) EXCEPT !.gzIn = Cat(@, Accepted(b)),
                               !.sinkLog = IF Accepted(b) # <<>> THEN Append(@, "Z") ELSE @,
                               !.errSeen = @ \/ Failed(b),
                               !.downErr = Reported(b, @)],
   n |-> BLen(Accepted(b)),
   err |-> IF sinkFault = "err" THEN ErrSink ELSE ErrNone]

\* w.gw.Close(): writes the gzip trailer (and header, if not yet written).
GwClose(w) ==
  [w |-> [SinkCommit(w) EXCEPT !.gwCloses = @ + 1,
                               !.sinkLog = IF sinkFault # "err" THEN Append(@, "Z") ELSE @,
                               !.errSeen = @ \/ sinkFault = "err",
                               !.downErr = IF sinkFault = "err" THEN ErrSink ELSE @],
   err |-> IF sinkFault = "err" THEN ErrSink ELSE ErrNone]

\* w.gw.Flush()
GwFlush(w) ==
  [SinkCommit(w) EXCEPT !.sinkLog = IF sinkFault # "err" THEN Append(@, "Z") ELSE @,
                        !.errSeen = @ \/ sinkFault = "err",
                        !.downErr = IF sinkFault = "err" THEN ErrSink ELSE @]

\* fw.Flush() of the sink
SinkFlush(w) == [SinkCommit(w) EXCEPT !.sinkLog = Append(@, "F")]

\* http.DetectContentType(b): the empty slice is text/plain.
DetectContentType(b) ==
  IF b = <<>> THEN {"text/plain; charset=utf-8"} ELSE SniffTypes

(***************************************************************************)
(* GzipResponseWriter.                                                     *)
(***************************************************************************)
\* A plausible slip: the test forgets Content-Range.
mayEncodeForgetsRange(h) ==
  /\ NumValues(h, HeaderNoCompression) = 0
  /\ Get(h, contentEncoding) = ""

\* The header test of Write and Flush: no value of the opt-out marker, no
\* Content-Encoding and no Content-Range.
mayEncode(h) ==
  /\ NumValues(h, HeaderNoCompression) = 0
  /\ Get(h, contentEncoding) = ""
  /\ Get(h, contentRange) = ""

\* A plausible slip: any declared length counts, not only one of at least
\* minSize.
lengthAndTypeAllowAnyLength(cl, ct) ==
  cl = 0 \/ (cl >= 0 /\ (ct = "" \/ contentTypeFilter(filter, ct)))

\* The length and type test of Write: no declared length, or a declared
\* length of at least minSize with no declared type or an accepted one.
lengthAndTypeAllow(cl, ct) ==
  cl = 0 \/ (cl >= minSize /\ (ct = "" \/ contentTypeFilter(filter, ct)))

\* init: a new gzip writer from the factory.
init(w) == [w EXCEPT !.gw = TRUE, !.gwNew = @ + 1]

\* The saved status code goes to the sink and is cleared.
flushCode(w) ==
  IF w.code # 0 THEN [SinkWriteHeader(w, w.code) EXCEPT !.code = 0] ELSE w

\* startGzip: the state and the error.
startGzip(w) ==
  LET h1 == Del(Set(w.hdr, contentEncoding, "gzip"), contentLength)
      h2 == IF ~keepAcceptRanges THEN Del(h1, acceptRanges) ELSE h1
      w1 == flushCode([w EXCEPT !.hdr = h2,
                                !.decided = IF @ = "undecided" THEN "gzip" ELSE @])
  IN  IF BLen(w1.buf) > 0
      THEN LET r == GwWrite(init(w1), w1.buf)
           IN  [w |-> [r.w EXCEPT !.buf = <<>>],
                err |-> IF r.err = ErrNone /\ r.n < BLen(w1.buf) THEN ErrShortWrite ELSE r.err]
      ELSE [w |-> w1, err |-> ErrNone]

\* startPlain: the state and the error.
startPlain(w) ==
  LET w1 == flushCode([w EXCEPT !.decided = IF @ = "undecided" THEN "plain" ELSE @])
      w2 == [w1 EXCEPT !.hdr = Del(@, HeaderNoCompression), !.ignore = TRUE]
  IN  IF BLen(w2.buf) = 0
      THEN [w |-> w2, err |-> ErrNone]
      ELSE LET r == SinkWrite(w2, w2.buf)
           IN  [w |-> [r.w EXCEPT !.buf = <<>>],
                err |-> IF r.err = ErrNone /\ r.n < BLen(w2.buf) THEN ErrShortWrite ELSE r.err]

\* The outcome of a method that returns (int, error).
Outcome(w, n, err) == [w |-> w, n |-> n, err |-> err]

\* A plausible slip: the part of b that did not fit the buffer is forgotten.
writeRestDropsRemain(started, remain, viaGzip, len) ==
  IF started.err # ErrNone THEN Outcome(started.w, 0, started.err)
  ELSE Outcome(started.w, len, ErrNone)

\* The end of Write: "if err := start(); err != nil { return 0, err }", then
\* the remainder goes to the chosen writer and Write returns len(b).
writeRest(started, remain, viaGzip, len) ==
  IF started.err # ErrNone THEN Outcome(started.w, 0, started.err)
  ELSE IF BLen(remain) > 0
  THEN LET r == IF viaGzip THEN GwWrite(started.w, remain) ELSE SinkWrite(started.w, remain)
       IN  IF r.err # ErrNone THEN Outcome(r.w, 0, r.err) ELSE Outcome(r.w, len, ErrNone)
  ELSE Outcome(started.w, len, ErrNone)

\* A plausible slip: the wait asks for a declared length.
waitsForMoreWithLength(w, cl) == BLen(w.buf) < minSize /\ cl # 0

\* "If the current buffer is less than minSize and a Content-Length isn't
\* set, then wait until we have more data."
waitsForMore(w, cl) == BLen(w.buf) < minSize /\ cl = 0

\* Write, when neither w.gw nor w.ignore is set; sniffed is what
\* http.DetectContentType answers if it is asked.
writeBuffering(w, b, sniffed) ==
  LET wantBuf == IF minSize > wantBufFloor THEN minSize ELSE wantBufFloor
      toAdd == IF BLen(w.buf) + BLen(b) > wantBuf THEN wantBuf - BLen(w.buf) ELSE BLen(b)
      w1 == [w EXCEPT !.buf = Cat(@, Take(b, toAdd))]
      remain == Drop(b, toAdd)
      cl == atoi(Get(w1.hdr, contentLength))
      ct == Get(w1.hdr, contentType)
      ct2 == IF ct = "" THEN sniffed ELSE ct
      w2 == IF contentType \notin DOMAIN w1.hdr
            THEN [w1 EXCEPT !.hdr = Set(@, contentType, ct2)] ELSE w1
  IN  IF /\ mayEncode(w1.hdr)
         /\ lengthAndTypeAllow(cl, ct)
      THEN IF waitsForMore(w1, cl)
           THEN Outcome(w1, BLen(b), ErrNone)
           ELSE IF cl >= minSize \/ BLen(w1.buf) >= minSize
           THEN IF contentTypeFilter(filter, ct2)
                THEN writeRest(startGzip(w2), remain, TRUE, BLen(b))
                ELSE writeRest(startPlain(w2), remain, FALSE, BLen(b))
           ELSE writeRest(startPlain(w1), remain, FALSE, BLen(b))
      ELSE writeRest(startPlain(w1), remain, FALSE, BLen(b))

\* Write(b)
writeOp(w, b, sniffed) ==
  IF w.gw THEN GwWrite(w, b)
  ELSE IF w.ignore THEN SinkWrite(w, b)
  ELSE writeBuffering(w, b, sniffed)

\* The error Close makes of a failed startPlain: fmt.Errorf with %q.
closeError(e) ==
  "gziphandler: write to regular responseWriter at close gets error: \"" \o e \o "\""

\* A plausible slip: Close always finishes a gzip stream, constructing the
\* gzip writer when there is none.
closeOpAlwaysGzip(w) ==
  IF w.ignore THEN [w |-> w, err |-> ErrNone]
  ELSE LET r == GwClose(IF w.gw THEN w ELSE init(w))
       IN  [w |-> [r.w EXCEPT !.gw = FALSE], err |-> r.err]

\* A plausible slip: Close leaves w.gw set.
closeOpKeepsGw(w) ==
  IF w.ignore THEN [w |-> w, err |-> ErrNone]
  ELSE IF ~w.gw
  THEN LET p == startPlain(w)
       IN  [w |-> p.w,
            err |-> IF p.err # ErrNone THEN closeError(p.err) ELSE ErrNone]
  ELSE LET r == GwClose(w) IN [w |-> r.w, err |-> r.err]

\* Close(): the state and the error.
closeOp(w) ==
  IF w.ignore THEN [w |-> w, err |-> ErrNone]
  ELSE IF ~w.gw
  THEN LET p == startPlain(w)
       IN  [w |-> p.w,
            err |-> IF p.err # ErrNone THEN closeError(p.err) ELSE ErrNone]
  ELSE LET r == GwClose(w) IN [w |-> [r.w EXCEPT !.gw = FALSE], err |-> r.err]

\* A plausible slip: Flush decides without looking at the declared length.
flushDecideAnyLength(w, sniffed) ==
  LET ct0 == Get(w.hdr, contentType)
      ct == IF ct0 = "" THEN sniffed ELSE ct0
      w1 == IF ct0 = "" /\ contentType \notin DOMAIN w.hdr
            THEN [w EXCEPT !.hdr = Set(@, contentType, ct)] ELSE w
  IN  IF mayEncode(w1.hdr) /\ contentTypeFilter(filter, ct)
      THEN startGzip(w1).w
      ELSE startPlain(w1).w

\* The decision of Flush when neither w.gw nor w.ignore is set and the
\* buffer holds bytes.
flushDecide(w, sniffed) ==
  LET cl0 == atoi(Get(w.hdr, contentLength))
      ct0 == Get(w.hdr, contentType)
      ct == IF ct0 = "" THEN sniffed ELSE ct0
      w1 == IF ct0 = "" /\ contentType \notin DOMAIN w.hdr
            THEN [w EXCEPT !.hdr = Set(@, contentType, ct)] ELSE w
      cl == IF cl0 = 0 THEN minSize ELSE cl0
  IN  IF /\ mayEncode(w1.hdr)
         /\ cl >= minSize
         /\ contentTypeFilter(filter, ct)
      THEN startGzip(w1).w
      ELSE startPlain(w1).w

\* Flush(); the sink of the model is an http.Flusher.
flushOp(w, sniffed) ==
  IF ~w.gw /\ ~w.ignore /\ BLen(w.buf) = 0 THEN w
  ELSE LET w1 == IF ~w.gw /\ ~w.ignore THEN flushDecide(w, sniffed) ELSE w
           w2 == IF w1.gw THEN GwFlush(w1) ELSE w1
       IN  SinkFlush(w2)

(***************************************************************************)
(* The handler's calls.                                                    *)
(***************************************************************************)
NoRet == [n |-> 0, err |-> ErrNone]

\* A plausible slip: the latest code wins.
writeHeaderOpLastWins(w, c) == [w EXCEPT !.code = c]

\* WriteHeader(c): the code is saved unless one is saved already.
writeHeaderOp(w, c) == [w EXCEPT !.code = IF @ = 0 THEN c ELSE @]

Config ==
  UNCHANGED <<minSize, keepAcceptRanges, filter, request, served, exceptList,
              respType, eligible, pool, insts, reqs>>

\* One writer is followed on its own: the pool plays no part.
NoPool == pool = {} /\ insts = <<>> /\ reqs = <<>>

\* w.WriteHeader(c)
WriteHeader(c) ==
  /\ steps < MaxSteps
  /\ code' = writeHeaderOp(W, c).code
  /\ codesPassed' = Append(codesPassed, c)
  /\ downErr' = ErrNone
  /\ lastOp' = "WriteHeader" /\ ret' = NoRet /\ steps' = steps + 1
  /\ Config
  /\ UNCHANGED <<hdr, buf, ignore, gw, sinkCodes, sinkBody, gzIn, sinkLog, wire,
                 sinkFault, gwNew, gwCloses, decided, errSeen, written, nWrites, phase>>

\* w.Write(b) with len(b) = n
Write(n) ==
  /\ steps < MaxSteps
  /\ \E sniffed \in DetectContentType(Cat(buf, Bytes(written + 1, written + n))) :
       LET r == writeOp(Entered, Bytes(written + 1, written + n), sniffed)
       IN  Becomes(r.w) /\ ret' = [n |-> r.n, err |-> r.err]
  /\ written' = written + n /\ nWrites' = nWrites + 1
  /\ phase' = IF phase = "open" THEN "open" ELSE "reused"
  /\ lastOp' = "Write" /\ steps' = steps + 1
  /\ Config /\ UNCHANGED <<sinkFault, codesPassed>>

\* w.Flush()
Flush ==
  /\ steps < MaxSteps
  /\ \E sniffed \in DetectContentType(buf) : Becomes(flushOp(Entered, sniffed))
  /\ lastOp' = "Flush" /\ ret' = NoRet /\ steps' = steps + 1
  /\ Config /\ UNCHANGED <<sinkFault, codesPassed, written, nWrites, phase>>

\* w.Close()
Close ==
  /\ steps < MaxSteps
  /\ LET r == closeOp(Entered) IN Becomes(r.w) /\ ret' = [n |-> 0, err |-> r.err]
  /\ lastOp' = "Close" /\ steps' = steps + 1
  /\ phase' = IF phase = "open" THEN "closed" ELSE phase
  /\ Config /\ UNCHANGED <<sinkFault, codesPassed, written, nWrites>>

\* The handler sets a response header: w.Header()[k] = vals.
SetHeader(k, vals) ==
  /\ steps < MaxSteps
  /\ hdr' = Put(hdr, k, vals)
  /\ lastOp' = "SetHeader" /\ ret' = NoRet /\ steps' = steps + 1
  /\ downErr' = ErrNone
  /\ Config /\ UNCHANGED codesPassed
  /\ UNCHANGED <<code, buf, ignore, gw, sinkCodes, sinkBody, gzIn, sinkLog, wire,
                 sinkFault, gwNew, gwCloses, decided, errSeen, written, nWrites, phase>>

\* The handler deletes a response header: w.Header().Del(k).
DelHeader(k) ==
  /\ steps < MaxSteps
  /\ k \in DOMAIN hdr
  /\ hdr' = Del(hdr, k)
  /\ lastOp' = "DelHeader" /\ ret' = NoRet /\ steps' = steps + 1
  /\ downErr' = ErrNone
  /\ Config /\ UNCHANGED codesPassed
  /\ UNCHANGED <<code, buf, ignore, gw, sinkCodes, sinkBody, gzIn, sinkLog, wire,
                 sinkFault, gwNew, gwCloses, decided, errSeen, written, nWrites, phase>>

\* The connection under the sink breaks: from now on its writes fail (f =
\* "err") or accept less than they are given (f = "short").
SinkBreaks(f) ==
  /\ sinkFault = "ok"
  /\ sinkFault' = f
  /\ Config /\ UNCHANGED <<downErr, codesPassed>>
  /\ UNCHANGED <<hdr, code, buf, ignore, gw, sinkCodes, sinkBody, gzIn, sinkLog, wire,
                 gwNew, gwCloses, decided, errSeen, lastOp, ret, written, nWrites, phase, steps>>

\* NewWrapper's handler function for an accepted request: a fresh
\* GzipResponseWriter around the sink, after Vary was added to the header.
Init ==
  /\ minSize \in MinSizes
  /\ keepAcceptRanges \in BOOLEAN
  /\ filter \in Filters
  /\ hdr = [k \in {vary} |-> <<acceptEncoding>>]
  /\ code = 0 /\ buf = <<>> /\ ignore = FALSE /\ gw = FALSE
  /\ sinkCodes = <<>> /\ sinkBody = <<>> /\ gzIn = <<>> /\ sinkLog = <<>>
  /\ wire = [sent |-> FALSE, hdr |-> <<>>]
  /\ sinkFault = "ok"
  /\ gwNew = 0 /\ gwCloses = 0 /\ decided = "undecided" /\ errSeen = FALSE
  /\ downErr = ErrNone /\ codesPassed = <<>>
  /\ request = AcceptedRequest /\ served = "wrapped"
  /\ exceptList = <<>> /\ respType = "" /\ eligible = "unknown"
  /\ NoPool
  /\ lastOp = "none" /\ ret = NoRet /\ written = 0 /\ nWrites = 0
  /\ phase = "open" /\ steps = 0

Next ==
  \/ \E c \in Codes : WriteHeader(c)
  \/ \E n \in ChunkSizes : Write(n)
  \/ Flush
  \/ Close
  \/ \E kv \in HeaderSets : SetHeader(kv[1], kv[2])
  \/ \E k \in HeaderDels : DelHeader(k)

\* A handler on a sink that does not fail.
Spec == Init /\ [][Next]_vars

\* A handler on a sink whose connection may break.
FaultNext == Next \/ \E f \in {"err", "short"} : SinkBreaks(f)

\* One configuration is enough to go through every fault.
FaultInit == Init /\ filter = "default" /\ ~keepAcceptRanges

FaultSpec == FaultInit /\ [][FaultNext]_vars

\* A writer and a sink that nothing has been done to, under the default
\* configuration.
Untouched ==
  /\ minSize = DefaultMinSize /\ keepAcceptRanges = FALSE /\ filter = "default"
  /\ code = 0 /\ buf = <<>> /\ ignore = FALSE /\ gw = FALSE
  /\ sinkCodes = <<>> /\ sinkBody = <<>> /\ gzIn = <<>> /\ sinkLog = <<>>
  /\ wire = [sent |-> FALSE, hdr |-> <<>>]
  /\ sinkFault = "ok"
  /\ gwNew = 0 /\ gwCloses = 0 /\ decided = "undecided" /\ errSeen = FALSE
  /\ downErr = ErrNone /\ codesPassed = <<>>
  /\ lastOp = "none" /\ ret = NoRet /\ written = 0 /\ nWrites = 0
  /\ phase = "open" /\ steps = 0

\* A request arrives at the handler function NewWrapper returns: nothing
\* has been served, and the sink's header map is empty.
GateInit ==
  /\ request \in Requests /\ served = "none"
  /\ hdr = <<>>
  /\ exceptList = <<>> /\ respType = "" /\ eligible = "unknown"
  /\ NoPool
  /\ Untouched

\* The handler function: Vary is added, then the next handler is given a
\* GzipResponseWriter if acceptsGzip(r), and the sink itself otherwise.
ServeHTTP ==
  /\ served = "none"
  /\ hdr' = Put(hdr, vary, <<acceptEncoding>>)
  /\ served' = IF acceptsGzip(request) THEN "wrapped" ELSE "raw"
  /\ lastOp' = "ServeHTTP"
  /\ UNCHANGED <<minSize, keepAcceptRanges, filter, code, buf, ignore, gw,
                 sinkCodes, sinkBody, gzIn, sinkLog, wire, sinkFault, gwNew,
                 gwCloses, decided, errSeen, downErr, codesPassed, request,
                 exceptList, respType, eligible, pool, insts, reqs, ret, written,
                 nWrites, phase, steps>>

GateNext == ServeHTTP

\* The gate, for every request of the model.
GateSpec == GateInit /\ [][GateNext]_vars

\* A middleware was built with ExceptContentTypes(exceptList), and a
\* response of type respType is about to be decided.
FilterInit ==
  /\ exceptList \in TypeLists /\ respType \in TypeTexts /\ eligible = "unknown"
  /\ NoPool
  /\ request = AcceptedRequest /\ served = "wrapped"
  /\ hdr = [k \in {vary} |-> <<acceptEncoding>>]
  /\ Untouched

\* w.contentTypeFilter(ct) with the filter ExceptContentTypes installed.
ApplyFilter ==
  /\ eligible = "unknown"
  /\ eligible' = IF ExceptContentTypes(exceptList, respType) THEN "yes" ELSE "no"
  /\ lastOp' = "contentTypeFilter"
  /\ UNCHANGED <<minSize, keepAcceptRanges, filter, hdr, code, buf, ignore, gw,
                 sinkCodes, sinkBody, gzIn, sinkLog, wire, sinkFault, gwNew,
                 gwCloses, decided, errSeen, downErr, codesPassed, request, served,
                 exceptList, respType, pool, insts, reqs, ret, written, nWrites,
                 phase, steps>>

FilterNext == ApplyFilter

\* The deny-list filter, for every list and content type of the model.
FilterSpec == FilterInit /\ [][FilterNext]_vars

(***************************************************************************)
(* Several requests through one wrapper and its pool (grwPool).  Each      *)
(* request runs the handler function in its own goroutine, on its own      *)
(* sink; the steps of different requests interleave.                       *)
(***************************************************************************)
\* Requests served through the wrapper.
NumRequests == 2

\* Calls the handlers of all requests together make on their writers.
MaxCalls == 2

\* Lengths of the slices a handler writes: one that waits and one that
\* commits under the default minSize.
PoolChunks == {1, 1100}

RequestIds == 1..NumRequests

\* Addresses at which instances live; never fewer than there are requests.
InstanceIds == 1..NumRequests

\* The code a handler passes to WriteHeader.
PoolCodes == {500}

\* What http.DetectContentType answers for the bodies the handlers write.
PoolSniffTypes == {"text/plain; charset=utf-8"}

\* Requests that arrive: one the gate admits and one it does not.
PoolRequests == {AcceptedRequest, [method |-> "HEAD", accept |-> AcceptedRequest.accept]}

\* A nil ResponseWriter.
NilSink == 0

\* &GzipResponseWriter{}, what the pool's New makes; closed records whether
\* Close was called since the instance was last set up.
ZeroWriter ==
  [sink |-> NilSink, code |-> 0, buf |-> <<>>, ignore |-> FALSE, gw |-> FALSE,
   closed |-> FALSE]

\* A plausible slip: the instance is attached to the new sink and its
\* buffer truncated, but its other fields are left as they were.
resetOpKeepsFields(inst, r) ==
  [inst EXCEPT !.sink = r, !.buf = <<>>, !.closed = FALSE]

\* "*gw = GzipResponseWriter{ResponseWriter: w, ..., buf: gw.buf}" and the
\* truncation of gw.buf, for the request r.
resetOp(inst, r) ==
  [sink |-> r, code |-> 0, ignore |-> FALSE, gw |-> FALSE, closed |-> FALSE,
   buf |-> IF BLen(inst.buf) > 0 THEN Take(inst.buf, 0) ELSE inst.buf]

\* A request that has not reached the handler function, and its sink;
\* inst is the instance it is or was served with, reused whether the pool
\* handed out an instance it held.
NewRequest(q) ==
  [pc |-> "new", request |-> q, inst |-> 0, reused |-> FALSE, calls |-> 0,
   written |-> 0,
   hdr |-> <<>>, sinkCodes |-> <<>>, sinkBody |-> <<>>, gzIn |-> <<>>,
   sinkLog |-> <<>>, wire |-> [sent |-> FALSE, hdr |-> <<>>],
   gwNew |-> 0, gwCloses |-> 0, decided |-> "undecided", errSeen |-> FALSE,
   downErr |-> ErrNone]

\* The writer of request r and its sink as one value, for the methods.
WOf(r) ==
  LET q == reqs[r]
      i == insts[q.inst]
  IN  [hdr |-> q.hdr, code |-> i.code, buf |-> i.buf, ignore |-> i.ignore,
       gw |-> i.gw, sinkCodes |-> q.sinkCodes, sinkBody |-> q.sinkBody,
       gzIn |-> q.gzIn, sinkLog |-> q.sinkLog, wire |-> q.wire,
       gwNew |-> q.gwNew, gwCloses |-> q.gwCloses, decided |-> q.decided,
       errSeen |-> q.errSeen, downErr |-> ErrNone]

\* The instance after a method left the writer and its sink as w.
InstAfter(inst, w) ==
  [inst EXCEPT !.code = w.code, !.buf = w.buf, !.ignore = w.ignore, !.gw = w.gw]

\* The request after a method left the writer and its sink as w.
ReqAfter(q, w) ==
  [q EXCEPT !.hdr = w.hdr, !.sinkCodes = w.sinkCodes, !.sinkBody = w.sinkBody,
            !.gzIn = w.gzIn, !.sinkLog = w.sinkLog, !.wire = w.wire,
            !.gwNew = w.gwNew, !.gwCloses = w.gwCloses, !.decided = w.decided,
            !.errSeen = w.errSeen, !.downErr = w.downErr]

\* The variables of the single writer, which the pool's steps leave alone.
writerVars ==
  <<minSize, keepAcceptRanges, filter, hdr, code, buf, ignore, gw, sinkCodes,
    sinkBody, gzIn, sinkLog, wire, sinkFault, gwNew, gwCloses, decided, errSeen,
    downErr, codesPassed, request, served, exceptList, respType, eligible, ret,
    written, nWrites, phase, steps>>

\* The handler function is entered: Vary is added and the gate is asked.
Arrive(r) ==
  /\ reqs[r].pc = "new"
  /\ reqs' = [reqs EXCEPT ![r].hdr = Put(@, vary, <<acceptEncoding>>),
                          ![r].pc = IF acceptsGzip(reqs[r].request)
                                    THEN "admitted" ELSE "raw"]
  /\ lastOp' = "Arrive"
  /\ UNCHANGED <<pool, insts, writerVars>>

\* h.ServeHTTP(w, r) on the sink itself.
ServeRaw(r) ==
  /\ reqs[r].pc = "raw"
  /\ reqs' = [reqs EXCEPT ![r].pc = "done"]
  /\ lastOp' = "ServeRaw"
  /\ UNCHANGED <<pool, insts, writerVars>>

\* grwPool.Get() when the pool hands out an instance it holds.
GetPooled(r, i) ==
  /\ reqs[r].pc = "admitted"
  /\ i \in pool
  /\ pool' = pool \ {i}
  /\ reqs' = [reqs EXCEPT ![r].pc = "got", ![r].inst = i, ![r].reused = TRUE]
  /\ lastOp' = "Get"
  /\ UNCHANGED <<insts, writerVars>>

\* The handler function of request r holds an instance.
Holds(r) == reqs[r].pc \in {"got", "serving", "closed", "cleared"}

\* The addresses no live instance occupies.
FreeIds == InstanceIds \ (pool \cup {reqs[r].inst : r \in {x \in RequestIds : Holds(x)}})

\* grwPool.Get() when the pool calls New; sync.Pool may do so whether or
\* not it holds instances.  The new instance takes the lowest free address.
GetNew(r, i) ==
  /\ reqs[r].pc = "admitted"
  /\ i \in FreeIds /\ \A j \in FreeIds : i <= j
  /\ insts' = [insts EXCEPT ![i] = ZeroWriter]
  /\ reqs' = [reqs EXCEPT ![r].pc = "got", ![r].inst = i]
  /\ lastOp' = "New"
  /\ UNCHANGED <<pool, writerVars>>

\* The struct assignment and the truncation of the buffer.
Reset(r) ==
  /\ reqs[r].pc = "got"
  /\ insts' = [insts EXCEPT ![reqs[r].inst] = resetOp(@, r)]
  /\ reqs' = [reqs EXCEPT ![r].pc = "serving"]
  /\ lastOp' = "Reset"
  /\ UNCHANGED <<pool, writerVars>>

RECURSIVE CallsUpTo(_)
\* The calls the handlers of requests 1..r have made.
CallsUpTo(r) == IF r = 0 THEN 0 ELSE reqs[r].calls + CallsUpTo(r - 1)

\* The handler of request r is running and may make another call.
MayCall(r) == reqs[r].pc = "serving" /\ CallsUpTo(NumRequests) < MaxCalls

\* The handler of request r calls a method that left its writer as w.
HandlerCall(r, w, n, op) ==
  /\ insts' = [insts EXCEPT ![reqs[r].inst] = InstAfter(@, w)]
  /\ reqs' = [reqs EXCEPT ![r] = [ReqAfter(@, w) EXCEPT !.calls = @ + 1,
                                                        !.written = @ + n]]
  /\ lastOp' = op
  /\ UNCHANGED <<pool, writerVars>>

\* The handler of request r calls Write with n bytes.
PoolWrite(r, n) ==
  /\ MayCall(r)
  /\ LET b == Bytes(reqs[r].written + 1, reqs[r].written + n)
     IN  \E sniffed \in PoolSniffTypes :
           HandlerCall(r, writeOp(WOf(r), b, sniffed).w, n, "Write")

\* The handler of request r calls WriteHeader.
PoolWriteHeader(r, c) ==
  /\ MayCall(r)
  /\ HandlerCall(r, writeHeaderOp(WOf(r), c), 0, "WriteHeader")

\* The handler of request r calls Flush.
PoolFlush(r) ==
  /\ MayCall(r)
  /\ \E sniffed \in PoolSniffTypes :
       HandlerCall(r, flushOp(WOf(r), sniffed), 0, "Flush")

\* The handler returns and the deferred function runs gw.Close().
DeferClose(r) ==
  /\ reqs[r].pc = "serving"
  /\ insts' = [insts EXCEPT ![reqs[r].inst] =
                 [InstAfter(@, closeOp(WOf(r)).w) EXCEPT !.closed = TRUE]]
  /\ reqs' = [reqs EXCEPT ![r] = [ReqAfter(@, closeOp(WOf(r)).w) EXCEPT !.pc = "closed"]]
  /\ lastOp' = "Close"
  /\ UNCHANGED <<pool, writerVars>>

\* gw.ResponseWriter = nil
ClearSink(r) ==
  /\ reqs[r].pc = "closed"
  /\ insts' = [insts EXCEPT ![reqs[r].inst].sink = NilSink]
  /\ reqs' = [reqs EXCEPT ![r].pc = "cleared"]
  /\ lastOp' = "ClearSink"
  /\ UNCHANGED <<pool, writerVars>>

\* grwPool.Put(gw)
PutBack(r) ==
  /\ reqs[r].pc = "cleared"
  /\ pool' = pool \cup {reqs[r].inst}
  /\ reqs' = [reqs EXCEPT ![r].pc = "done"]
  /\ lastOp' = "Put"
  /\ UNCHANGED <<insts, writerVars>>

\* sync.Pool drops an instance it holds (at a garbage collection).
PoolDrops(i) ==
  /\ i \in pool
  /\ pool' = pool \ {i}
  /\ lastOp' = "Drop"
  /\ UNCHANGED <<insts, reqs, writerVars>>

\* The wrapper was built with the defaults; the pool is empty and no
\* request has reached the handler function.
PoolInit ==
  /\ pool = {}
  /\ insts = [i \in InstanceIds |-> ZeroWriter]
  /\ reqs \in [RequestIds -> {NewRequest(q) : q \in PoolRequests}]
  /\ hdr = <<>> /\ request = AcceptedRequest /\ served = "none"
  /\ exceptList = <<>> /\ respType = "" /\ eligible = "unknown"
  /\ Untouched

PoolNext ==
  \/ \E r \in RequestIds : Arrive(r)
  \/ \E r \in RequestIds : ServeRaw(r)
  \/ \E r \in RequestIds, i \in InstanceIds : GetPooled(r, i)
  \/ \E r \in RequestIds, i \in InstanceIds : GetNew(r, i)
  \/ \E r \in RequestIds : Reset(r)
  \/ \E r \in RequestIds, n \in PoolChunks : PoolWrite(r, n)
  \/ \E r \in RequestIds, c \in PoolCodes : PoolWriteHeader(r, c)
  \/ \E r \in RequestIds : PoolFlush(r)
  \/ \E r \in RequestIds : DeferClose(r)
  \/ \E r \in RequestIds : ClearSink(r)
  \/ \E r \in RequestIds : PutBack(r)
  \/ \E i \in InstanceIds : PoolDrops(i)

\* Concurrent requests through one wrapper.
PoolSpec == PoolInit /\ [][PoolNext]_vars

(***************************************************************************)
(* Properties.                                                             *)
(***************************************************************************)
\* Everything the handler has written so far.
WrittenBytes == Bytes(1, written)

\* The step is a call of the handler (not a change of the sink).
Called(op) == lastOp' = op /\ steps' = steps + 1

\* The opt-out conditions of Write and Flush: a value of the marker header, a
\* non-empty Content-Encoding or a non-empty Content-Range.
OptedOut(h) ==
  \/ NumValues(h, HeaderNoCompression) > 0
  \/ Get(h, contentEncoding) # ""
  \/ Get(h, contentRange) # ""

\* C1: while the writer is not written to after a Close and nothing failed
\* downstream, the bytes delivered downstream followed by the bytes still
\* buffered are the handler's Write inputs in call order, each once; they
\* went either all into the gzip writer or all to the sink; after Close
\* nothing is left in the buffer.
C1_DeliveredInOrder ==
  (phase # "reused" /\ ~errSeen) =>
    /\ gzIn = <<>> \/ sinkBody = <<>>
    /\ Cat(Cat(gzIn, sinkBody), buf) = WrittenBytes
    /\ phase = "closed" => buf = <<>>

\* C1 witness: two Writes of 600 bytes with minSize 1024 straddled the buffer
\* cap, the writer was closed, and all 1200 bytes went through the gzip writer.
C1_Witness ==
  /\ minSize = DefaultMinSize /\ nWrites = 2 /\ written = 1200
  /\ phase = "closed" /\ gzIn = Bytes(1, 1200) /\ sinkBody = <<>>

\* The headers the sink sent carry the rewrite of a compressed response.
WireIsGzip ==
  /\ Get(wire.hdr, contentEncoding) = "gzip"
  /\ contentLength \notin DOMAIN wire.hdr
  /\ keepAcceptRanges \/ acceptRanges \notin DOMAIN wire.hdr

\* A Write or Flush runs on a writer that has not decided yet and has to
\* decide for a response that declares a Content-Length of at least minSize,
\* or declares none and has written at least minSize bytes, whose declared
\* content type (or, with no Content-Type key, the sniffed one that the call
\* stores in the header) passes the filter, and that has not opted out.
EligibleDecision ==
  /\ decided = "undecided"
  /\ Called("Write") \/ (Called("Flush") /\ buf # <<>>)
  /\ ~OptedOut(hdr)
  /\ \/ atoi(Get(hdr, contentLength)) # 0 /\ atoi(Get(hdr, contentLength)) >= minSize
     \/ atoi(Get(hdr, contentLength)) = 0 /\ written' >= minSize
  /\ \/ Get(hdr, contentType) # "" /\ contentTypeFilter(filter, Get(hdr, contentType))
     \/ /\ contentType \notin DOMAIN hdr
        /\ contentType \in DOMAIN hdr'
        /\ contentTypeFilter(filter, Get(hdr', contentType))

\* C2: a response that reaches minSize (declared or written), has an
\* eligible content type and has not opted out is committed to gzip; from
\* then on (as long as the writer is not written to after Close) no body byte
\* reaches the sink except through the gzip writer, and the headers the sink
\* sends have Content-Encoding gzip, no Content-Length and, unless
\* keepAcceptRanges, no Accept-Ranges.
C2_EligibleIsCompressed ==
  [][ /\ EligibleDecision => decided' = "gzip"
      /\ (decided' = "gzip" /\ phase' # "reused") =>
           /\ sinkBody' = <<>>
           /\ wire'.sent => WireIsGzip'
    ]_vars

\* A Content-Length header is declared and its value is below minSize.
DeclaredBelowMinSize(h) ==
  Get(h, contentLength) # "" /\ atoi(Get(h, contentLength)) < minSize

\* The same, for a value that is not zero.
DeclaredNonzeroBelowMinSize(h) ==
  atoi(Get(h, contentLength)) # 0 /\ atoi(Get(h, contentLength)) < minSize

\* A Write, Flush or Close runs on a writer that has not decided yet.
CalledUndecided ==
  /\ decided = "undecided"
  /\ Called("Write") \/ Called("Flush") \/ Called("Close")

\* What holds of a response that was committed plain, after the step: no
\* gzip writer was or is constructed, Content-Encoding was not set to gzip,
\* and the sink has received exactly the bytes the handler wrote.
StaysPlain ==
  /\ ignore' /\ ~gw' /\ gwNew' = 0 /\ gzIn' = <<>>
  /\ Get(hdr', contentEncoding) # "gzip"
  /\ ~errSeen' => sinkBody' = Bytes(1, written')

\* The step neither commits to gzip, nor constructs a gzip writer, nor sets
\* Content-Encoding to gzip.
NotCompressed ==
  decided' # "gzip" /\ gwNew' = 0 /\ Get(hdr', contentEncoding) # "gzip"

\* C3 as stated: no call on a response whose declared Content-Length is
\* below minSize commits to gzip, constructs a gzip writer or sets
\* Content-Encoding; Close commits it plain, and once it is committed plain
\* the sink has received exactly the bytes the handler wrote.
C3_Original ==
  [][ /\ (CalledUndecided /\ DeclaredBelowMinSize(hdr)) => NotCompressed
      /\ (CalledUndecided /\ DeclaredBelowMinSize(hdr) /\ decided' = "plain") => StaysPlain
    ]_vars

\* C3, amended: no call on a response whose declared Content-Length is not
\* zero and below minSize commits to gzip, constructs a gzip writer or sets
\* Content-Encoding; every Write, every Flush with bytes in the buffer and
\* Close commit it plain; once committed plain, no gzip writer is ever
\* constructed, Content-Encoding is never set to gzip and the sink has
\* received exactly the bytes the handler wrote.
C3_DeclaredSmallIsPlain ==
  [][ /\ (CalledUndecided /\ DeclaredNonzeroBelowMinSize(hdr)) => NotCompressed
      /\ (CalledUndecided /\ DeclaredNonzeroBelowMinSize(hdr)
          /\ ~(Called("Flush") /\ buf = <<>>)) => decided' = "plain"
      /\ decided' = "plain" => StaysPlain
    ]_vars

\* C3 witness: a response that declared Content-Length 1 wrote 600 bytes with
\* minSize 1024 and an eligible type; all of them are on the sink, plain.
C3_Witness ==
  /\ minSize = DefaultMinSize /\ Get(wire.hdr, contentLength) = "1"
  /\ Get(wire.hdr, contentType) = "text/html"
  /\ decided = "plain" /\ sinkBody = Bytes(1, 600) /\ gwNew = 0

\* C4: the sink's WriteHeader is called at most once.
C4_OneWriteHeader == Len(sinkCodes) <= 1

\* C5: no WriteHeader call reaches the sink after body bytes (plain or
\* gzip) have reached it.
C5_HeaderBeforeBody ==
  \A i \in 1..Len(sinkLog) : \A j \in 1..Len(sinkLog) :
    (i < j /\ sinkLog[i] \in {"B", "Z"}) => sinkLog[j] # "H"

\* C6: when a Write, or a Flush with bytes in the buffer, runs on a writer
\* that has not decided yet and the header holds a value of the opt-out
\* marker, a Content-Encoding or a Content-Range, the call commits plain; a
\* response committed that way is never compressed and its body reaches the
\* sink unmodified.
C6_OptOutIsPlain ==
  [][ /\ (decided = "undecided" /\ OptedOut(hdr)
          /\ (Called("Write") \/ (Called("Flush") /\ buf # <<>>)))
         => (decided' = "plain" /\ StaysPlain)
      /\ decided' = "plain" => StaysPlain
    ]_vars

\* C6 witness: a response with Content-Range and a declared Content-Length
\* of 2000 wrote 600 bytes with minSize 2; they are on the sink, plain.
C6_Witness ==
  /\ minSize = 2 /\ Get(wire.hdr, contentRange) # ""
  /\ Get(wire.hdr, contentLength) = "2000"
  /\ decided = "plain" /\ sinkBody = Bytes(1, 600) /\ gzIn = <<>>

\* C7: the headers the sink sends never hold the opt-out marker.
C7_MarkerRemoved == wire.sent => HeaderNoCompression \notin DOMAIN wire.hdr

\* C8: after Close on a writer that received no Write, no body byte has
\* reached the sink, no gzip writer was constructed, nothing of a gzip
\* stream was emitted, Content-Encoding was not set to gzip, and the writer
\* is committed plain.
C8_CloseWithoutWrite ==
  (nWrites = 0 /\ phase = "closed") =>
    /\ decided = "plain" /\ ignore /\ ~gw
    /\ sinkBody = <<>> /\ gzIn = <<>> /\ gwNew = 0
    /\ \A i \in 1..Len(sinkLog) : sinkLog[i] \notin {"B", "Z"}
    /\ Get(hdr, contentEncoding) # "gzip"

\* C8 witness: WriteHeader(500), a declared Content-Length of 2000, then
\* Close without any Write: the code went to the sink, and nothing else.
C8_Witness ==
  /\ nWrites = 0 /\ phase = "closed" /\ sinkCodes = <<500>>
  /\ Get(hdr, contentLength) = "2000" /\ sinkLog = <<"H">>

\* C9: a Close that directly follows a Close writes no body byte, closes no
\* gzip writer and constructs none; so two Closes in a row close the gzip
\* writer at most once and write the buffer at most once.
C9_CloseIdempotent ==
  [][ (lastOp = "Close" /\ Called("Close")) =>
        /\ sinkBody' = sinkBody /\ gzIn' = gzIn
        /\ gwCloses' = gwCloses /\ gwNew' = gwNew /\ ~gw'
        /\ \A i \in 1..Len(sinkLog') : i > Len(sinkLog) => sinkLog'[i] \notin {"B", "Z"}
        /\ buf' = <<>> /\ buf = <<>>
    ]_vars

\* C9 witness: Write (committed to gzip), Close, Close: the gzip writer was
\* closed once and the second Close left the writer plain.
C9_Witness ==
  /\ steps = 3 /\ nWrites = 1 /\ lastOp = "Close"
  /\ gwNew = 1 /\ gwCloses = 1 /\ ignore /\ gzIn = WrittenBytes /\ written > 0

\* C10: a Flush on a writer that has not decided, holds fewer than minSize
\* bytes and has no declared Content-Length is ignored: it decides nothing,
\* nothing reaches the sink and the buffer is unchanged.
C10_EarlyFlushIgnored ==
  [][ (Called("Flush") /\ decided = "undecided" /\ ~gw /\ ~ignore
       /\ BLen(buf) < minSize /\ Get(hdr, contentLength) = "")
      => UNCHANGED <<decided, ignore, gw, buf, sinkCodes, sinkBody, gzIn, sinkLog, wire, gwNew>>
    ]_vars

\* The sink and the writer's fields, as a Flush may change them.
writerAndSink ==
  <<hdr, code, buf, ignore, gw, sinkCodes, sinkBody, gzIn, sinkLog, wire,
    gwNew, gwCloses, decided, errSeen>>

\* What Flush has to find to commit to gzip, as far as the header before
\* the call shows it: no opt-out, a declared length that is absent, zero or
\* at least minSize, and a declared type that passes the filter.  With no
\* declared type the sniffed one decides; it is visible after the call when
\* the call stored it under the absent Content-Type key.
FlushMayCompress ==
  /\ ~OptedOut(hdr)
  /\ atoi(Get(hdr, contentLength)) = 0 \/ atoi(Get(hdr, contentLength)) >= minSize
  /\ \/ Get(hdr, contentType) # "" /\ contentTypeFilter(filter, Get(hdr, contentType))
     \/ contentType \notin DOMAIN hdr /\ contentTypeFilter(filter, Get(hdr', contentType))
     \/ contentType \in DOMAIN hdr /\ Get(hdr, contentType) = "" /\ gw'

\* The last n entries of the sink's log after the step.
LogEnds(n) == SubSeq(sinkLog', Len(sinkLog') - n + 1, Len(sinkLog'))

WeightOf(p) ==
  IF p = "q=0" THEN 0 ELSE IF p = "q=0.5" THEN QUnit \div 2 ELSE 0 - QUnit

\* The weight of an entry: its q annotation clamped into [0, 1] when it
\* carries one, 1.0 when it carries none.
EntryWeight(e) ==
  LET qs == {i \in 1..Len(e.params) : HasPrefix(e.params[i], "q=")}
  IN  IF qs = {} THEN QUnit
      ELSE LET q == WeightOf(e.params[CHOOSE i \in qs : TRUE])
           IN  IF q < 0 THEN 0 ELSE IF q > QUnit THEN QUnit ELSE q

\* The weight of the gzip coding in a list of entries, 0 when it is absent.
GzipWeight(es) ==
  LET gs == {i \in 1..Len(es) : ToLower(es[i].coding) = "gzip"}
  IN  IF gs = {} THEN 0
      ELSE EntryWeight(es[CHOOSE i \in gs : \A j \in gs : i <= j])

\* C12: the handler is given a GzipResponseWriter exactly when the request's
\* method is not HEAD and the weight of gzip in Accept-Encoding, taken from
\* the entry's q annotation whenever it has one, is above zero; otherwise
\* it is given the sink itself.
C12_Admission ==
  served # "none" =>
    /\ served = "wrapped" <=> (request.method # "HEAD" /\ GzipWeight(request.accept) > 0)
    /\ served \in {"wrapped", "raw"}

\* No byte occurs twice in b, and the bytes are in the handler's order.
NoByteTwice(b) == \A i \in 1..(Len(b) - 1) : b[i][2] < b[i + 1][1]

\* A write that failed is not tried again: what was buffered is dropped
\* with the failure, and no byte is handed downstream a second time.
NotRetried ==
  /\ downErr' # ErrNone => buf' = <<>>
  /\ NoByteTwice(sinkBody') /\ NoByteTwice(gzIn')

\* C13: an error of the sink or the gzip writer during a Write, a
\* Flush that has to commit the buffer, or a Close is what that call
\* returns, unchanged, and the failed write is not retried.
C13_ErrorsReturned ==
  [][ /\ \A op \in {"Write", "Close"} :
           (Called(op) /\ downErr' = ErrSink) => ret'.err = ErrSink
      /\ (Called("Flush") /\ ~gw /\ ~ignore /\ buf # <<>> /\ downErr' = ErrSink) =>
           ret'.err = ErrSink
      /\ NotRetried
    ]_vars

\* C14: a Write returns an error or a count equal to the length it was
\* given; when a downstream write of the call accepted less than it was
\* given and reported no error, the Write returns an error.
C14_FullCountOrError ==
  [][ Called("Write") =>
        /\ ret'.err # ErrNone \/ ret'.n = written' - written
        /\ downErr' = "short" => ret'.err # ErrNone
    ]_vars

\* The content type ct matches the entry e of a list: both parse, and the
\* parsed entry equals the parsed content type.
MatchesEntry(e, ct) ==
  /\ ParseMediaType(e).ok /\ ParseMediaType(ct).ok
  /\ equals(ParseMediaType(e), ParseMediaType(ct).mediaType, ParseMediaType(ct).params)

\* C15: under ExceptContentTypes(L) a content type is eligible exactly when
\* it matches no entry of L, for every L, the empty list and the lists
\* with no entry that parses included.
C15_DenyList ==
  eligible # "unknown" =>
    (eligible = "yes" <=> ~\E i \in 1..Len(exceptList) : MatchesEntry(exceptList[i], respType))

\* The first code the handler passed to WriteHeader, 0 when it passed none.
FirstCode(passed) == IF passed = <<>> THEN 0 ELSE passed[1]

\* C16: WriteHeader writes nothing to the sink and leaves a saved code as
\* it is; before the commit the saved code is the first code the handler
\* passed, and the commit delivers exactly that code to the sink.
C16_FirstCodeDelivered ==
  [][ /\ Called("WriteHeader") =>
           /\ UNCHANGED <<sinkCodes, sinkBody, gzIn, sinkLog, wire>>
           /\ code # 0 => code' = code
      /\ decided' = "undecided" => code' = FirstCode(codesPassed')
      /\ (decided = "undecided" /\ decided' # "undecided") =>
           sinkCodes' = IF codesPassed = <<>> THEN <<>> ELSE <<FirstCode(codesPassed)>>
    ]_vars

\* C16 witness: the handler passed 200 and then 500 before the commit, and
\* the sink was given 200 and nothing else.
C16_Witness ==
  /\ codesPassed = <<200, 500>> /\ decided # "undecided"
  /\ sinkCodes = <<200>> /\ code = 0

\* C17: once startGzip has rewritten the header (Content-Encoding: gzip set,
\* Content-Length removed) and until the handler's first Close, a gzip
\* writer has been constructed and no body byte has gone to the sink
\* directly.
C17_RewriteHasCompressor ==
  (decided = "gzip" /\ phase = "open") => (gwNew >= 1 /\ sinkBody = <<>>)

\* The bytes of the Write that the step takes.
Given == Bytes(written + 1, written')

\* C18: once a gzip writer has been constructed, every later Write hands
\* its bytes to the gzip side and nothing to the sink directly; once
\* startPlain has run first, every later Write hands its bytes to the sink
\* and no gzip writer is constructed; in both cases the Write puts nothing
\* in the buffer.
C18_CommitIrreversible ==
  [][ /\ (Called("Write") /\ decided = "gzip" /\ gwNew >= 1) =>
           /\ buf' = <<>> /\ sinkBody' = sinkBody
           /\ gzIn' = Cat(gzIn, Given) /\ gwNew' = gwNew
      /\ (Called("Write") /\ decided = "plain") =>
           /\ buf' = <<>> /\ gzIn' = gzIn /\ gwNew' = gwNew
           /\ sinkBody' = Cat(sinkBody, Given)
    ]_vars

\* C19: a gzip writer and w.ignore are never both present, the factory is
\* asked for a gzip writer at most once, and never when startPlain ran
\* first.
C19_ModesExclusive ==
  /\ ~(gw /\ ignore)
  /\ gwNew <= 1
  /\ decided = "plain" => gwNew = 0

\* C20: the buffer never holds more than max(512, minSize) bytes; after a
\* Write on a writer that has not committed it holds fewer than minSize
\* bytes; and once startGzip or startPlain has run it is empty.
C20_BufferBounded ==
  /\ BLen(buf) <= (IF minSize > wantBufFloor THEN minSize ELSE wantBufFloor)
  /\ (lastOp = "Write" /\ decided = "undecided") => BLen(buf) < minSize
  /\ decided # "undecided" => buf = <<>>

\* C21: a Write on a writer with neither w.gw nor w.ignore set, whose header
\* has no Content-Length and no opt-out marker, Content-Encoding or
\* Content-Range, and whose bytes leave the buffer below minSize, returns
\* the length it was given and no error, appends its bytes to the buffer,
\* and changes nothing else: no code and no byte reaches the sink, the
\* header is as it was, no gzip writer is constructed and neither flag is
\* set.  Calls other than Write, Flush and Close leave the buffer alone.
C21_WaitsWithoutDeciding ==
  [][ /\ ( /\ Called("Write") /\ ~gw /\ ~ignore
           /\ Get(hdr, contentLength) = "" /\ ~OptedOut(hdr)
           /\ BLen(buf) + (written' - written) < minSize ) =>
           /\ ret' = [n |-> written' - written, err |-> ErrNone]
           /\ buf' = Cat(buf, Given)
           /\ UNCHANGED <<hdr, code, ignore, gw, sinkCodes, sinkBody, gzIn, sinkLog,
                          wire, gwNew, gwCloses, decided>>
      /\ (\E op \in {"WriteHeader", "SetHeader", "DelHeader"} : Called(op)) => buf' = buf
    ]_vars

\* C21 witness: with minSize 1024 two Writes of one byte each were both
\* retained; nothing reached the sink and nothing was decided.
C21_Witness ==
  /\ minSize = DefaultMinSize /\ lastOp = "Write" /\ nWrites = 2 /\ written = 2
  /\ buf = Bytes(1, 2) /\ ret = [n |-> 1, err |-> ErrNone]
  /\ ~gw /\ ~ignore /\ decided = "undecided" /\ gwNew = 0
  /\ sinkLog = <<>> /\ sinkCodes = <<>> /\ ~wire.sent

\* C22: no instance is held by two requests at once, nor held by a
\* request while it lies in the pool; an instance being served with refers
\* to the sink of the request that holds it; when the handler of an
\* admitted request starts, its instance is in the initial state (no saved
\* code, empty buffer, neither flag, no gzip writer, nothing decided); and
\* every instance in the pool has been closed and has a nil sink.
C22_PoolIsolation ==
  /\ \A r1, r2 \in RequestIds :
       (r1 # r2 /\ Holds(r1) /\ Holds(r2)) => reqs[r1].inst # reqs[r2].inst
  /\ \A r \in RequestIds :
       /\ Holds(r) => reqs[r].inst \notin pool
       /\ reqs[r].pc \in {"serving", "closed"} => insts[reqs[r].inst].sink = r
       /\ (reqs[r].pc = "serving" /\ reqs[r].calls = 0) =>
            /\ insts[reqs[r].inst] =
                 [sink |-> r, code |-> 0, buf |-> <<>>, ignore |-> FALSE,
                  gw |-> FALSE, closed |-> FALSE]
            /\ reqs[r].decided = "undecided" /\ reqs[r].gwNew = 0
  /\ \A i \in pool : insts[i].sink = NilSink /\ insts[i].closed

\* C22 witness: request 1 ended on the plain path and put its instance
\* back; request 2 was handed that instance by the pool and its handler
\* starts on it in the initial state.
C22_Witness ==
  /\ reqs # <<>>
  /\ reqs[1].pc = "done" /\ reqs[1].decided = "plain"
  /\ reqs[2].pc = "serving" /\ reqs[2].reused /\ reqs[2].calls = 0
  /\ reqs[2].inst = reqs[1].inst
  /\ ~insts[reqs[2].inst].ignore

====
